---- MODULE Spec2Model ----
(***************************************************************************)
(* A model of mvn-testalot.py: the surefire report parser (parse_xml),     *)
(* the result collector (collect_results), the run orchestrator            *)
(* (mvn_test_times), the report generator and main.                        *)
(*                                                                         *)
(* Text is modelled as TLA+ strings and the three module-level regular     *)
(* expressions are matched character by character.  Durations are          *)
(* integers counting milliseconds (the documents of the model carry at     *)
(* most three decimals).  None is the empty tuple and Some(v) is <<v>>.    *)
(***************************************************************************)
EXTENDS Integers, Sequences, FiniteSets, Bags, TLC

VARIABLES
    doc,        \* parse_xml: the lines of the document being read
    lineNo,     \* parse_xml: the index of the next line of the loop
    parser,     \* parse_xml: current_test, result_kind, duration, results
    ppc,        \* parse_xml: "loop", "returned" or "raised"
    parsed      \* parse_xml: None, or Some of the value returned

VARIABLES
    args,       \* main: sys.argv[1:]
    pc,         \* main: the position of the process
    count,      \* main: None, or Some of int(args[1])
    i,          \* mvn_test_times: the loop variable
    clock,      \* datetime.datetime.now(), in ticks
    fs,         \* the file system: path -> None or Some(node)
    mvnCalls,   \* the number of times "mvn test" has been run, ever
    firstRun,   \* mvnCalls when this invocation of the tool began
    outputs,    \* per run of "mvn test": what it left in target/surefire-reports
    archivedRuns, \* the runs whose output was moved into target/testalot
    entriesBefore, \* entries of target/testalot when this invocation began
    todo,       \* collect_results: the documents not parsed yet
    results,    \* collect_results: results
    returned,   \* None, or Some of the list collect_results returned
    failedPath, \* collect_results: the path whose parse raised
    report,     \* print_report: None, or Some of the results reported
    exitcode,   \* None while the process runs, then Some of its exit status
    error       \* None, or Some of the exception that ended the process

pvars == <<doc, lineNo, parser, ppc, parsed>>

mvars ==
    <<args, pc, count, i, clock, fs, mvnCalls, firstRun, outputs,
      archivedRuns, entriesBefore, todo, results, returned, failedPath,
      report,
      exitcode, error>>

VARIABLES
    given,      \* print_slow_tests_report: its argument results
    ridx,       \* print_slow_tests_report: the index of the next result
    durations,  \* print_slow_tests_report: the dict, in insertion order
    rows,       \* print_slow_tests_report: the table rows printed
    counts,     \* print_flaky_tests_report: the dict of dicts
    flakyRows,  \* print_flaky_tests_report: the table rows printed
    rpc         \* "loop", "printed" (slow tests); "count", "flaky" (flaky)

rvars == <<given, ridx, durations, rows, counts, flakyRows, rpc>>

vars == <<pvars, mvars, rvars>>

\* ---------------------------------------------------------------- bounds

\* Longest document (in lines) the parser specification enumerates.
MaxLines == 3

\* Runs of "mvn test" over all invocations of the tool.
MaxRuns == 3

\* Longest list of paths the report mode is given.
MaxPaths == 2

\* Longest result list the report generator is given.
MaxResults == 3

\* Most distinct test names in a result list of the report generator.
MaxNames == 9

\* Longest result list given to the flaky-tests report.
MaxFlaky == 4

\* Clock ticks per second (the clock of the program counts microseconds).
TicksPerSecond == 4

\* ------------------------------------------------------------ text tools

None == <<>>

Some(v) == <<v>>

\* re: the pattern text `lit` occurs in s at position pos.
LitAt(s, pos, lit) ==
    /\ pos >= 1
    /\ pos + Len(lit) - 1 <= Len(s)
    /\ SubSeq(s, pos, pos + Len(lit) - 1) = lit

\* re: [^"]+ is greedy: the position after the longest run of non-quote
\* characters that starts at pos.
RECURSIVE SpanNonQuote(_, _)
SpanNonQuote(s, pos) ==
    IF pos > Len(s) \/ SubSeq(s, pos, pos) = "\""
    THEN pos
    ELSE SpanNonQuote(s, pos + 1)

\* TESTCASE.match(line): None, or Some of the three groups.
TESTCASE(line) ==
    LET lit1 == "  <testcase name=\""
        lit2 == "\" classname=\""
        lit3 == "\" time=\""
        p1 == Len(lit1) + 1
        e1 == SpanNonQuote(line, p1)
        p2 == e1 + Len(lit2)
        e2 == SpanNonQuote(line, p2)
        p3 == e2 + Len(lit3)
        e3 == SpanNonQuote(line, p3)
    IN  IF /\ LitAt(line, 1, lit1)
           /\ e1 > p1
           /\ LitAt(line, e1, lit2)
           /\ e2 > p2
           /\ LitAt(line, e2, lit3)
           /\ e3 > p3
           /\ LitAt(line, e3, "\"")
        THEN Some([name |-> SubSeq(line, p1, e1 - 1),
                   classname |-> SubSeq(line, p2, e2 - 1),
                   time |-> SubSeq(line, p3, e3 - 1)])
        ELSE None

\* ERROR.match(line)
ERROR(line) == LitAt(line, 1, "    <error ")

\* FAILURE.match(line)
FAILURE(line) == LitAt(line, 1, "    <failure ")

DigitChars == {"0", "1", "2", "3", "4", "5", "6", "7", "8", "9"}

DigitOf(c) ==
    CASE c = "0" -> 0 [] c = "1" -> 1 [] c = "2" -> 2 [] c = "3" -> 3
      [] c = "4" -> 4 [] c = "5" -> 5 [] c = "6" -> 6 [] c = "7" -> 7
      [] c = "8" -> 8 [] c = "9" -> 9

AllDigits(s) == \A k \in 1..Len(s) : SubSeq(s, k, k) \in DigitChars

RECURSIVE DigitsVal(_)
DigitsVal(s) ==
    IF Len(s) = 0
    THEN 0
    ELSE DigitsVal(SubSeq(s, 1, Len(s) - 1)) * 10
         + DigitOf(SubSeq(s, Len(s), Len(s)))

RECURSIVE DotAt(_, _)
DotAt(s, pos) ==
    IF pos > Len(s) THEN 0
    ELSE IF SubSeq(s, pos, pos) = "." THEN pos
    ELSE DotAt(s, pos + 1)

\* datetime.timedelta(seconds=float(text)) for decimal text
\* [+-]digits[.digits] of at most three decimals: Some(milliseconds), or
\* None where float raises ValueError.
float(text) ==
    LET signed == Len(text) > 0 /\ SubSeq(text, 1, 1) \in {"-", "+"}
        neg == Len(text) > 0 /\ SubSeq(text, 1, 1) = "-"
        body == IF signed THEN SubSeq(text, 2, Len(text)) ELSE text
        dot == DotAt(body, 1)
        ip == IF dot = 0 THEN body ELSE SubSeq(body, 1, dot - 1)
        fp == IF dot = 0 THEN "" ELSE SubSeq(body, dot + 1, Len(body))
        fp3 == SubSeq(fp \o "000", 1, 3)
        ms == DigitsVal(ip) * 1000 + DigitsVal(fp3)
    IN  IF /\ Len(ip) + Len(fp) > 0
           /\ AllDigits(ip)
           /\ AllDigits(fp)
        THEN Some(IF neg THEN 0 - ms ELSE ms)
        ELSE None

\* ------------------------------------------------------------ parse_xml

\* class Result(NamedTuple)
Result(name, kind, dur) == [name |-> name, kind |-> kind, duration |-> dur]

\* The exceptions the parser raises.
AssertionError == [type |-> "AssertionError", args |-> <<>>]

ValueError(text) ==
    [type |-> "ValueError",
     args |-> <<"could not convert string to float: '" \o text \o "'">>]

\* The locals of parse_xml before the first line is read.
ParserInit ==
    [current_test |-> None, result_kind |-> "None", duration |-> None,
     results |-> <<>>, exc |-> None]

\* A parser that forgets to append the record of the test it closes.
CloseOpenTestForgets(p) == p

\* results.append(Result(current_test, result_kind, duration)) under its two
\* asserts, when a test is open.
CloseOpenTest(p) ==
    IF p.current_test = None
    THEN p
    ELSE IF p.result_kind = "None" \/ p.duration = None
    THEN [p EXCEPT !.exc = Some(AssertionError)]
    ELSE [p EXCEPT !.results =
             Append(@, Result(p.current_test[1], p.result_kind, p.duration[1]))]

\* The failure branch pasted from the error branch with its kind unchanged.
MarkPasted(p, kind) ==
    IF p.result_kind = "PASS"
    THEN [p EXCEPT !.result_kind = "ERROR"]
    ELSE [p EXCEPT !.exc = Some(AssertionError)]

\* The marker branch with its assert stripped.
MarkUnchecked(p, kind) == [p EXCEPT !.result_kind = kind]

\* The marker branch: assert result_kind == ResultKind.PASS, then the new kind.
Mark(p, kind) ==
    IF p.result_kind = "PASS"
    THEN [p EXCEPT !.result_kind = kind]
    ELSE [p EXCEPT !.exc = Some(AssertionError)]

\* One iteration of the loop over the lines.
ParseLine(p, line) ==
    LET m == TESTCASE(line)
    IN  IF m # None
        THEN LET c == CloseOpenTest(p)
                 d == float(m[1].time)
             IN  IF c.exc # None THEN c
                 ELSE IF d = None
                 THEN [c EXCEPT !.exc = Some(ValueError(m[1].time))]
                 ELSE [c EXCEPT
                         !.duration = d,
                         !.current_test =
                             Some(m[1].classname \o "." \o m[1].name \o "()"),
                         !.result_kind = "PASS"]
        ELSE IF ERROR(line) THEN Mark(p, "ERROR")
        ELSE IF FAILURE(line) THEN Mark(p, "FAIL")
        ELSE p

RECURSIVE ParseLines(_, _, _)
ParseLines(p, lines, k) ==
    IF k > Len(lines) \/ p.exc # None
    THEN p
    ELSE ParseLines(ParseLine(p, lines[k]), lines, k + 1)

\* parse_xml on the lines of a document: [exc |-> None, results |-> ...]
\* when it returns, [exc |-> Some(e), results |-> <<>>] when it raises.
parse_xml(lines) ==
    LET p == ParseLines(ParserInit, lines, 1)
        q == IF p.exc = None THEN CloseOpenTest(p) ELSE p
    IN  IF q.exc = None
        THEN [exc |-> None, results |-> q.results]
        ELSE [exc |-> q.exc, results |-> <<>>]

\* --------------------------------------------- the parser, line by line

LineA == "  <testcase name=\"a\" classname=\"C\" time=\"1.5\"/>"

LineB == "  <testcase name=\"b\" classname=\"C\" time=\"0\">"

LineNegative == "  <testcase name=\"a\" classname=\"C\" time=\"-1\"/>"

LineGrouped == "  <testcase name=\"a\" classname=\"C\" time=\"1,234.5\"/>"

LineLegacy == "  <testcase name=\"a\" classname=\"C\"/>"

LineError == "    <error message=\"ERR unknown command\" type=\"E\">"

LineFailure == "    <failure message=\"expected\" type=\"F\">"

LineOther == "  </testcase>"

LinePool ==
    {LineA, LineB, LineNegative, LineGrouped, LineLegacy, LineError,
     LineFailure, LineOther}

Docs == UNION {[1..n -> LinePool] : n \in 0..MaxLines}

ParserIdle ==
    /\ doc = <<>>
    /\ lineNo = 1
    /\ parser = ParserInit
    /\ ppc = "idle"
    /\ parsed = None

ReportIdle ==
    /\ given = <<>>
    /\ ridx = 1
    /\ durations = <<>>
    /\ rows = <<>>
    /\ counts = <<>>
    /\ flakyRows = <<>>
    /\ rpc = "idle"

MainIdle ==
    /\ args = <<>>
    /\ pc = "idle"
    /\ count = None
    /\ i = 0
    /\ clock = 0
    /\ fs = <<>>
    /\ mvnCalls = 0
    /\ firstRun = 0
    /\ outputs = <<>>
    /\ archivedRuns = {}
    /\ entriesBefore = 0
    /\ todo = <<>>
    /\ results = <<>>
    /\ returned = None
    /\ failedPath = None
    /\ report = None
    /\ exitcode = None
    /\ error = None

\* parse_xml(path) is entered on some document.
InitParse ==
    /\ doc \in Docs
    /\ lineNo = 1
    /\ parser = ParserInit
    /\ ppc = "loop"
    /\ parsed = None
    /\ MainIdle
    /\ ReportIdle

\* for line in open(path, "r"): one line.
ParseStep ==
    /\ ppc = "loop"
    /\ lineNo <= Len(doc)
    /\ parser' = ParseLine(parser, doc[lineNo])
    /\ lineNo' = lineNo + 1
    /\ ppc' = IF parser'.exc # None THEN "raised" ELSE "loop"
    /\ UNCHANGED <<doc, parsed, mvars, rvars>>

\* The end of the input: the open test is closed and results is returned.
ParseReturn ==
    /\ ppc = "loop"
    /\ lineNo > Len(doc)
    /\ parser' = CloseOpenTest(parser)
    /\ ppc' = IF parser'.exc # None THEN "raised" ELSE "returned"
    /\ parsed' = IF parser'.exc # None THEN None ELSE Some(parser'.results)
    /\ UNCHANGED <<doc, lineNo, mvars, rvars>>

NextParse == ParseStep \/ ParseReturn

SpecParse == InitParse /\ [][NextParse]_vars

\* ------------------------------------------------- claims on the parser

\* The indexes of the lines of `lines` that match the testcase-start pattern.
StartIdx(lines) == {k \in 1..Len(lines) : TESTCASE(lines[k]) # None}

\* The index of the n-th testcase-start line.
NthStart(lines, n) ==
    CHOOSE k \in StartIdx(lines) :
        Cardinality({j \in StartIdx(lines) : j <= k}) = n

\* The lines that follow start line k up to the next start line or the end.
Segment(lines, k) ==
    {j \in (k + 1)..Len(lines) :
        \A q \in StartIdx(lines) : q > k => j < q}

\* '<classname>.<testname>()' of a testcase-start line.
NameOf(line) ==
    TESTCASE(line)[1].classname \o "." \o TESTCASE(line)[1].name \o "()"

IsMarker(line) == ERROR(line) \/ FAILURE(line)

\* C1: when parse_xml returns, it returns exactly one record per line that
\* matches the testcase-start pattern, in document order, each named
\* '<classname>.<testname>()' from that line; with no such line the result
\* is the empty sequence.
C1_OneRecordPerStartLine ==
    ppc = "returned" =>
        /\ parsed # None
        /\ Len(parsed[1]) = Cardinality(StartIdx(doc))
        /\ \A n \in 1..Len(parsed[1]) :
              parsed[1][n].name = NameOf(doc[NthStart(doc, n)])

\* C1 witness: a returned parse of two start lines with another line
\* between them, named C.a() and C.b() in that order.
C1_Witness ==
    /\ ppc = "returned"
    /\ doc = <<LineA, LineOther, LineB>>
    /\ Len(parsed[1]) = 2
    /\ parsed[1][1].name = "C.a()"
    /\ parsed[1][2].name = "C.b()"

\* C2: when parse_xml returns, the kind of each record is decided by the
\* marker lines of its own segment alone: ERROR if the segment holds an
\* error marker, FAIL if it holds a failure marker, PASS if it holds none.
C2_KindFromOwnSegment ==
    ppc = "returned" =>
        \A n \in 1..Len(parsed[1]) :
            n <= Cardinality(StartIdx(doc)) =>
                LET seg == Segment(doc, NthStart(doc, n))
                IN  parsed[1][n].kind =
                        IF \E j \in seg : ERROR(doc[j]) THEN "ERROR"
                        ELSE IF \E j \in seg : FAILURE(doc[j]) THEN "FAIL"
                        ELSE "PASS"

\* C2 witness: a failure marker between two entries marks the first and
\* leaves the second a pass.
C2_Witness ==
    /\ ppc = "returned"
    /\ doc = <<LineA, LineFailure, LineB>>
    /\ parsed[1][1].kind = "FAIL"
    /\ parsed[1][2].kind = "PASS"

\* The start line of the entry that is open when line j is read (0: none).
OpenAt(lines, j) ==
    IF \E k \in StartIdx(lines) : k < j
    THEN CHOOSE k \in StartIdx(lines) :
            k < j /\ \A q \in StartIdx(lines) : q < j => q <= k
    ELSE 0

\* Line j is an outcome marker for an entry that already has one.
SecondMarker(lines, j) ==
    /\ IsMarker(lines[j])
    /\ OpenAt(lines, j) > 0
    /\ \E q \in (OpenAt(lines, j) + 1)..(j - 1) : IsMarker(lines[q])

KindOfMarker(line) == IF ERROR(line) THEN "ERROR" ELSE "FAIL"

\* C3: a second outcome marker for the open entry aborts the parse at that
\* line with an AssertionError and nothing is returned; a document that
\* holds such a marker never gets a result; and while an entry is open its
\* kind, once set by a marker, stays the kind of its first marker.
C3_SecondMarkerAborts ==
    /\ \A j \in 1..Len(doc) :
          (j < lineNo /\ SecondMarker(doc, j)) =>
              /\ ppc = "raised"
              /\ lineNo = j + 1
              /\ parser.exc = Some(AssertionError)
              /\ parsed = None
    /\ (\E j \in 1..Len(doc) : SecondMarker(doc, j)) => ppc # "returned"
    /\ \A q \in 1..(lineNo - 1) :
          ( /\ IsMarker(doc[q])
            /\ OpenAt(doc, lineNo) > 0
            /\ OpenAt(doc, lineNo) < q
            /\ \A h \in (OpenAt(doc, lineNo) + 1)..(q - 1) : ~IsMarker(doc[h]) )
          => parser.result_kind = KindOfMarker(doc[q])

\* C3 witness: the parse has aborted on a failure marker that follows an
\* error marker of the same entry.
C3_Witness ==
    /\ ppc = "raised"
    /\ doc = <<LineA, LineError, LineFailure>>
    /\ lineNo = 4
    /\ parser.result_kind = "ERROR"
    /\ parser.exc = Some(AssertionError)

\* ------------------------------------------------------ the file system

PomPath == "pom.xml"

RawDir == "target/surefire-reports"

ArchiveRoot == "target/testalot"

File(name, lines) ==
    [type |-> "file", name |-> name, lines |-> lines, entries |-> <<>>]

\* A directory: its entries in the order the file system lists them.
Dir(name, entries) ==
    [type |-> "dir", name |-> name, lines |-> <<>>, entries |-> entries]

\* os.path.isfile(path)
isfile(f, path) ==
    path \in DOMAIN f /\ f[path] # None /\ f[path][1].type = "file"

\* os.path.isdir(path)
isdir(f, path) ==
    path \in DOMAIN f /\ f[path] # None /\ f[path][1].type = "dir"

\* str.endswith
endswith(s, suffix) ==
    /\ Len(s) >= Len(suffix)
    /\ SubSeq(s, Len(s) - Len(suffix) + 1, Len(s)) = suffix

\* os.path.join(dirpath, filename)
join(dirpath, filename) == dirpath \o "/" \o filename

\* A walk that stays in the top directory.
WalkTopOnly(dirpath, node) ==
    IF node.type # "dir"
    THEN <<>>
    ELSE LET files == SelectSeq(node.entries, LAMBDA e : e.type = "file")
         IN  [k \in 1..Len(files) |->
                 [path |-> join(dirpath, files[k].name),
                  lines |-> files[k].lines]]

\* The files of a directory, then those of its subdirectories, as
\* [path, lines]: the order in which os.walk (top down) hands them over.
RECURSIVE Walk(_, _)
Walk(dirpath, node) ==
    IF node.type # "dir"
    THEN <<>>
    ELSE LET files == SelectSeq(node.entries, LAMBDA e : e.type = "file")
             dirs == SelectSeq(node.entries, LAMBDA e : e.type = "dir")
             below[k \in 0..Len(dirs)] ==
                 IF k = 0 THEN <<>>
                 ELSE below[k - 1]
                      \o Walk(join(dirpath, dirs[k].name), dirs[k])
         IN  [k \in 1..Len(files) |->
                 [path |-> join(dirpath, files[k].name),
                  lines |-> files[k].lines]]
             \o below[Len(dirs)]

\* A collector that parses whatever file the walk finds.
DocumentsOfUnfiltered(f, path) ==
    IF isfile(f, path) /\ endswith(path, ".xml")
    THEN <<[path |-> path, lines |-> f[path][1].lines]>>
    ELSE IF path \in DOMAIN f /\ f[path] # None
    THEN Walk(path, f[path][1])
    ELSE <<>>

\* The documents one path of collect_results leads to, in parse order.
DocumentsOf(f, path) ==
    IF isfile(f, path) /\ endswith(path, ".xml")
    THEN <<[path |-> path, lines |-> f[path][1].lines]>>
    ELSE IF path \in DOMAIN f /\ f[path] # None
    THEN SelectSeq(Walk(path, f[path][1]),
                   LAMBDA d : endswith(d.path, ".xml"))
    ELSE <<>>

\* The calls of parse_xml that collect_results(paths) makes, in order.
RECURSIVE Worklist(_, _)
Worklist(f, paths) ==
    IF paths = <<>>
    THEN <<>>
    ELSE DocumentsOf(f, Head(paths)) \o Worklist(f, Tail(paths))

\* ------------------------------------------------------------- main

\* int(text) for decimal text [+-]digits: Some(n), or None where int raises.
int(text) ==
    LET signed == Len(text) > 0 /\ SubSeq(text, 1, 1) \in {"-", "+"}
        body == IF signed THEN SubSeq(text, 2, Len(text)) ELSE text
    IN  IF Len(body) > 0 /\ AllDigits(body)
        THEN Some(IF SubSeq(text, 1, 1) = "-"
                  THEN 0 - DigitsVal(body)
                  ELSE DigitsVal(body))
        ELSE None

DigitChar(n) ==
    CASE n = 0 -> "0" [] n = 1 -> "1" [] n = 2 -> "2" [] n = 3 -> "3"
      [] n = 4 -> "4" [] n = 5 -> "5" [] n = 6 -> "6" [] n = 7 -> "7"
      [] n = 8 -> "8" [] n = 9 -> "9"

\* datetime.datetime.now().isoformat(timespec="seconds") without ":" and
\* "-": the clock cut to whole seconds (seconds 0..9 of one minute).
Timestamp(now) == "20210208T09351" \o DigitChar(now \div TicksPerSecond)

SystemExit(message) == [type |-> "SystemExit", args |-> <<message>>]

IndexError == [type |-> "IndexError", args |-> <<"list index out of range">>]

\* shutil.Error of shutil.move
ShutilError(path) ==
    [type |-> "shutil.Error",
     args |-> <<"Destination path '" \o path \o "' already exists">>]

\* os.rename of a directory onto a file
NotADirectoryError(path) ==
    [type |-> "NotADirectoryError", args |-> <<path>>]

\* The process ends: normally, by sys.exit, or by an uncaught exception.
Exit(code, exception) ==
    /\ pc' = "exited"
    /\ exitcode' = Some(code)
    /\ error' = exception

\* collect_results(paths) is entered.
StartCollect(f, paths) ==
    /\ pc' = "collect"
    /\ todo' = Worklist(f, paths)
    /\ results' = <<>>

\* main, lines 204-216: the dispatch on args[1].
Main ==
    /\ pc = "main"
    /\ LET c == IF Len(args) >= 1 THEN int(args[1]) ELSE None
       IN  /\ count' = c
           /\ IF c # None /\ c[1] # 0
              THEN /\ pc' = "iter"
                   /\ UNCHANGED <<todo, results, exitcode, error>>
              ELSE IF Len(args) = 0
              THEN /\ Exit(1, Some(IndexError))
                   /\ UNCHANGED <<todo, results>>
              ELSE IF args[1] # "report"
              THEN /\ Exit(1, Some(AssertionError))
                   /\ UNCHANGED <<todo, results>>
              ELSE /\ StartCollect(fs, SubSeq(args, 2, Len(args)))
                   /\ UNCHANGED <<exitcode, error>>
    /\ UNCHANGED <<pvars, rvars, args, i, clock, fs, mvnCalls, firstRun, outputs,
                   archivedRuns, entriesBefore, returned, failedPath, report>>

\* mvn_test_times, lines 44-51: the stale raw output goes, pom.xml is checked.
IterBegin ==
    /\ pc = "iter"
    /\ i < count[1]
    /\ fs' = IF isdir(fs, RawDir) THEN [fs EXCEPT ![RawDir] = None] ELSE fs
    /\ IF ~isfile(fs', PomPath)
       THEN Exit(1, Some(SystemExit(
                "Must be in the root of the source tree, pom.xml not found")))
       ELSE pc' = "mvn" /\ UNCHANGED <<exitcode, error>>
    /\ UNCHANGED <<pvars, rvars, args, count, i, clock, mvnCalls, firstRun, outputs,
                   archivedRuns, entriesBefore, todo, results, returned,
                   failedPath, report>>

\* What one run of "mvn test" leaves behind: its exit code and the entries
\* of target/surefire-reports (None: no directory at all).
DocPass == <<LineA>>

DocFail == <<LineA, LineFailure>>

DocTwice == <<LineA, LineError, LineFailure>>

RunOutcomes ==
    {[returncode |-> 0, dir |-> Some(<<File("TEST-C.xml", DocPass)>>)],
     [returncode |-> 1,
      dir |-> Some(<<File("TEST-C.xml", DocFail), File("C.txt", DocPass)>>)],
     [returncode |-> 1, dir |-> Some(<<File("TEST-C.xml", DocTwice)>>)],
     [returncode |-> 1, dir |-> None]}

\* mvn_test_times, lines 52-53: subprocess.run(args=["mvn", "test"]) returns;
\* the run took less than a second, or a whole one.
MvnRun ==
    /\ pc = "mvn"
    /\ \E o \in RunOutcomes, d \in {1, TicksPerSecond} :
          /\ fs' = [fs EXCEPT ![RawDir] =
                       IF o.dir = None THEN None
                       ELSE Some(Dir("surefire-reports", o.dir[1]))]
          /\ outputs' = Append(outputs, o)
          /\ clock' = clock + d
    /\ mvnCalls' = mvnCalls + 1
    /\ pc' = "archive"
    /\ UNCHANGED <<pvars, rvars, args, count, i, firstRun, archivedRuns,
                   entriesBefore, todo, results, returned, failedPath, report,
                   exitcode, error>>

\* os.makedirs("target/testalot", exist_ok=True)
makedirs(f) ==
    IF isdir(f, ArchiveRoot) THEN f
    ELSE [f EXCEPT ![ArchiveRoot] = Some(Dir("testalot", <<>>))]

\* The index of the entry called name in a directory (0: none).
EntryIndex(node, name) ==
    IF \E k \in 1..Len(node.entries) : node.entries[k].name = name
    THEN CHOOSE k \in 1..Len(node.entries) : node.entries[k].name = name
    ELSE 0

\* shutil.move("target/surefire-reports", "target/testalot/" + name): a
\* rename when the destination is free; into the destination when that is
\* a directory, unless it already holds a "surefire-reports".
move(f, name) ==
    LET root == f[ArchiveRoot][1]
        src == f[RawDir][1]
        k == EntryIndex(root, name)
        dst == join(ArchiveRoot, name)
    IN  IF k = 0
        THEN [exc |-> None,
              fs |-> [f EXCEPT
                        ![RawDir] = None,
                        ![ArchiveRoot] = Some([root EXCEPT !.entries =
                            Append(@, Dir(name, src.entries))])]]
        ELSE IF root.entries[k].type # "dir"
        THEN [exc |-> Some(NotADirectoryError(dst)), fs |-> f]
        ELSE IF EntryIndex(root.entries[k], "surefire-reports") # 0
        THEN [exc |-> Some(ShutilError(join(dst, "surefire-reports"))),
              fs |-> f]
        ELSE [exc |-> None,
              fs |-> [f EXCEPT
                        ![RawDir] = None,
                        ![ArchiveRoot] = Some([root EXCEPT !.entries[k].entries =
                            Append(@, Dir("surefire-reports", src.entries))])]]

\* An archiving step that passes over a run that left no raw output and
\* goes on with the next iteration.
ArchiveSkipsMissing ==
    /\ pc = "archive"
    /\ IF ~isdir(fs, RawDir)
       THEN /\ i' = i + 1
            /\ pc' = "iter"
            /\ UNCHANGED <<fs, archivedRuns, exitcode, error>>
       ELSE LET m == move(makedirs(fs), "surefire-reports-" \o Timestamp(clock))
            IN  IF m.exc # None
                THEN /\ fs' = m.fs
                     /\ Exit(1, m.exc)
                     /\ UNCHANGED <<i, archivedRuns>>
                ELSE /\ fs' = m.fs
                     /\ i' = i + 1
                     /\ archivedRuns' = archivedRuns \cup {mvnCalls}
                     /\ pc' = "iter"
                     /\ UNCHANGED <<exitcode, error>>
    /\ UNCHANGED <<pvars, rvars, args, count, clock, mvnCalls, firstRun, outputs,
                   entriesBefore, todo, results, returned, failedPath, report>>

\* mvn_test_times, lines 54-83: the raw output must exist and is moved
\* under the archive root, named by the time of the move.
Archive ==
    /\ pc = "archive"
    /\ IF ~isdir(fs, RawDir)
       THEN /\ Exit(1, Some(AssertionError))
            /\ UNCHANGED <<fs, i, archivedRuns>>
       ELSE LET m == move(makedirs(fs), "surefire-reports-" \o Timestamp(clock))
            IN  IF m.exc # None
                THEN /\ fs' = m.fs
                     /\ Exit(1, m.exc)
                     /\ UNCHANGED <<i, archivedRuns>>
                ELSE /\ fs' = m.fs
                     /\ i' = i + 1
                     /\ archivedRuns' = archivedRuns \cup {mvnCalls}
                     /\ pc' = "iter"
                     /\ UNCHANGED <<exitcode, error>>
    /\ UNCHANGED <<pvars, rvars, args, count, clock, mvnCalls, firstRun, outputs,
                   entriesBefore, todo, results, returned, failedPath, report>>

\* mvn_test_times, lines 85-88: the loop is over, the archive root is collected.
LoopEnd ==
    /\ pc = "iter"
    /\ i >= count[1]
    /\ StartCollect(fs, <<ArchiveRoot>>)
    /\ UNCHANGED <<pvars, rvars, args, count, i, clock, fs, mvnCalls, firstRun,
                   outputs, archivedRuns, entriesBefore, returned, failedPath,
                   report, exitcode, error>>

\* A collector that skips the document whose parse raises.
CollectDocSwallows ==
    /\ pc = "collect"
    /\ todo # <<>>
    /\ results' = results \o parse_xml(Head(todo).lines).results
    /\ todo' = Tail(todo)
    /\ UNCHANGED <<pvars, rvars, args, pc, count, i, clock, fs, mvnCalls, firstRun,
                   outputs, archivedRuns, entriesBefore, returned, failedPath,
                   report, exitcode, error>>

\* collect_results, lines 131 and 140: results += parse_xml(...), whose
\* exception nothing catches.
CollectDoc ==
    /\ pc = "collect"
    /\ todo # <<>>
    /\ LET r == parse_xml(Head(todo).lines)
       IN  IF r.exc # None
           THEN /\ failedPath' = Some(Head(todo).path)
                /\ Exit(1, r.exc)
                /\ UNCHANGED <<todo, results>>
           ELSE /\ results' = results \o r.results
                /\ todo' = Tail(todo)
                /\ UNCHANGED <<pc, failedPath, exitcode, error>>
    /\ UNCHANGED <<pvars, rvars, args, count, i, clock, fs, mvnCalls, firstRun,
                   outputs, archivedRuns, entriesBefore, returned, report>>

\* collect_results, line 142: return results
CollectReturn ==
    /\ pc = "collect"
    /\ todo = <<>>
    /\ returned' = Some(results)
    /\ pc' = "report"
    /\ UNCHANGED <<pvars, rvars, args, count, i, clock, fs, mvnCalls, firstRun,
                   outputs, archivedRuns, entriesBefore, todo, results,
                   failedPath, report, exitcode, error>>

\* main, lines 213-214 and 220: print_report(results), then the process
\* ends with status 0.
PrintReport ==
    /\ pc = "report"
    /\ report' = returned
    /\ Exit(0, None)
    /\ UNCHANGED <<pvars, rvars, args, count, i, clock, fs, mvnCalls, firstRun,
                   outputs, archivedRuns, entriesBefore, todo, results,
                   returned, failedPath>>

\* The command lines the tool is started with: a repeat count within the
\* runs that are left, counts that are no counts, and the report mode.
ArgChoices(runsLeft) ==
    {<<DigitChar(n)>> : n \in 1..runsLeft}
    \cup {<<"0">>, <<"-1">>, <<"check">>, <<>>, <<"report", ArchiveRoot>>}

ArchiveEntries(f) ==
    IF isdir(f, ArchiveRoot) THEN Len(f[ArchiveRoot][1].entries) ELSE 0

\* The process has ended and the tool is started again in the same tree.
NewInvocation ==
    /\ pc = "exited"
    /\ args' \in ArgChoices(MaxRuns - mvnCalls)
    /\ pc' = "main"
    /\ count' = None
    /\ i' = 0
    /\ firstRun' = mvnCalls
    /\ entriesBefore' = ArchiveEntries(fs)
    /\ todo' = <<>>
    /\ results' = <<>>
    /\ returned' = None
    /\ failedPath' = None
    /\ report' = None
    /\ exitcode' = None
    /\ error' = None
    /\ UNCHANGED <<pvars, rvars, clock, fs, mvnCalls, outputs, archivedRuns>>

\* The tree the tool is first started in: with or without pom.xml, with or
\* without the raw output of an earlier "mvn test", and no archive yet.
StaleDir == Dir("surefire-reports", <<File("TEST-Old.xml", <<LineB>>)>>)

InitialTrees ==
    {[p \in {PomPath, RawDir, ArchiveRoot} |->
        CASE p = PomPath -> pom
          [] p = RawDir -> raw
          [] p = ArchiveRoot -> None] :
     pom \in {None, Some(File("pom.xml", <<>>))},
     raw \in {None, Some(StaleDir)}}

Init ==
    /\ ParserIdle
    /\ ReportIdle
    /\ args \in ArgChoices(MaxRuns)
    /\ pc = "main"
    /\ count = None
    /\ i = 0
    /\ clock = 0
    /\ fs \in InitialTrees
    /\ mvnCalls = 0
    /\ firstRun = 0
    /\ outputs = <<>>
    /\ archivedRuns = {}
    /\ entriesBefore = 0
    /\ todo = <<>>
    /\ results = <<>>
    /\ returned = None
    /\ failedPath = None
    /\ report = None
    /\ exitcode = None
    /\ error = None

Next ==
    \/ Main
    \/ IterBegin
    \/ MvnRun
    \/ Archive
    \/ LoopEnd
    \/ CollectDoc
    \/ CollectReturn
    \/ PrintReport
    \/ NewInvocation

Spec == Init /\ [][Next]_vars

\* ------------------------------------------- claims on the orchestrator

\* The process is in run mode with a repeat count of at least one.
RunMode == count # None /\ count[1] >= 1

\* The runs of "mvn test" this invocation has made.
RunsOfInvocation == (firstRun + 1)..mvnCalls

\* How often x occurs in a sequence.
Occurrences(seq, x) == Cardinality({k \in 1..Len(seq) : seq[k] = x})

\* Two sequences hold the same elements the same number of times.
SameMultiset(a, b) ==
    /\ Len(a) = Len(b)
    /\ \A k \in 1..Len(a) : Occurrences(a, a[k]) = Occurrences(b, a[k])

\* The records of the documents (*.xml) among the files a run left.
RECURSIVE RecordsOfFiles(_)
RecordsOfFiles(files) ==
    IF files = <<>>
    THEN <<>>
    ELSE (IF endswith(Head(files).name, ".xml")
          THEN parse_xml(Head(files).lines).results
          ELSE <<>>)
         \o RecordsOfFiles(Tail(files))

\* The records of the documents of a set of runs, run after run.
RECURSIVE RecordsOfRuns(_)
RecordsOfRuns(runs) ==
    IF runs = {}
    THEN <<>>
    ELSE LET r == CHOOSE x \in runs : \A y \in runs : x <= y
         IN  (IF outputs[r].dir = None THEN <<>>
              ELSE RecordsOfFiles(outputs[r].dir[1]))
             \o RecordsOfRuns(runs \ {r})

\* C4: once mvn_test_times(N), N >= 1, has returned, the archive root holds
\* exactly N more run directories than when the invocation began, whatever
\* the times at which the runs ended.
C4_NMoreRunDirectories ==
    (pc = "report" /\ RunMode) =>
        ArchiveEntries(fs) = entriesBefore + count[1]

\* C5 as claimed: the records mvn_test_times(N) returns are, as a multiset,
\* those of the documents of the N runs of this invocation and no others.
C5_OnlyThisInvocation ==
    (pc = "report" /\ count # None) =>
        SameMultiset(returned[1], RecordsOfRuns(RunsOfInvocation))

\* C5 amended: the records mvn_test_times(N) returns are, as a multiset,
\* those of the documents of every run archived under the archive root: the
\* N runs of this invocation and the runs earlier invocations archived
\* there; no archived document is missing and none is counted twice.
C5_AllArchivedRuns ==
    (pc = "report" /\ count # None) =>
        /\ RunsOfInvocation \subseteq archivedRuns
        /\ SameMultiset(returned[1], RecordsOfRuns(archivedRuns))

\* C5 witness: a second invocation has returned the records of its own two
\* runs and of a run an earlier invocation archived.
C5_Witness ==
    /\ pc = "report"
    /\ RunMode
    /\ firstRun = 1
    /\ archivedRuns = {1, 2, 3}
    /\ Len(returned[1]) = 3

\* Every document any run has produced so far parses.
AllDocumentsParse ==
    \A r \in 1..mvnCalls :
        outputs[r].dir # None =>
            \A k \in 1..Len(outputs[r].dir[1]) :
                parse_xml(outputs[r].dir[1][k].lines).exc = None

\* C6: in run mode with N >= 1, pom.xml present and a raw-output directory
\* after every run (and, narrowing the claim, every document parsing), the
\* process ends after exactly N runs of "mvn test", all of them archived,
\* with exit status 0, whatever the exit codes of the runs.
C6_ExactlyNRunsThenExitZero ==
    ( /\ pc = "exited"
      /\ RunMode
      /\ isfile(fs, PomPath)
      /\ \A r \in RunsOfInvocation : outputs[r].dir # None
      /\ AllDocumentsParse )
    => /\ mvnCalls - firstRun = count[1]
       /\ RunsOfInvocation \subseteq archivedRuns
       /\ exitcode = Some(0)

\* ------------------------------------- the report mode on a user's tree

DocGrouped == <<LineB, LineGrouped>>

UserPaths == {"TEST-A.xml", "notes.txt", "reports", "missing"}

\* Trees that hold a document, a text file, a directory of reports with a
\* subdirectory, and no file called "missing".
UserTrees ==
    {[p \in UserPaths |->
        CASE p = "TEST-A.xml" -> Some(File("TEST-A.xml", a))
          [] p = "notes.txt" -> Some(File("notes.txt", DocPass))
          [] p = "reports" ->
               Some(Dir("reports",
                        <<File("B.txt", DocPass),
                          Dir("old.xml", <<File("TEST-C.xml", c)>>),
                          File("TEST-B.xml", <<LineB, LineError>>)>>))
          [] p = "missing" -> None] :
     a \in {DocPass, DocTwice, DocGrouped},
     c \in {DocFail, DocTwice}}

PathLists == UNION {[1..n -> UserPaths] : n \in 0..MaxPaths}

\* mvn-testalot.py report <path>...
InitCollect ==
    /\ ParserIdle
    /\ ReportIdle
    /\ args \in {<<"report">> \o paths : paths \in PathLists}
    /\ pc = "main"
    /\ count = None
    /\ i = 0
    /\ clock = 0
    /\ fs \in UserTrees
    /\ mvnCalls = 0
    /\ firstRun = 0
    /\ outputs = <<>>
    /\ archivedRuns = {}
    /\ entriesBefore = 0
    /\ todo = <<>>
    /\ results = <<>>
    /\ returned = None
    /\ failedPath = None
    /\ report = None
    /\ exitcode = None
    /\ error = None

NextCollect ==
    \/ Main
    \/ CollectDoc
    \/ CollectReturn
    \/ PrintReport

SpecCollect == InitCollect /\ [][NextCollect]_vars

\* ---------------------------------------------- claims on the collector

\* The paths of the report mode: args[2:].
ReportPaths == SubSeq(args, 2, Len(args))

\* The indexes of the documents collect_results is led to whose parse raises.
FailingDocs ==
    {k \in 1..Len(Worklist(fs, ReportPaths)) :
        parse_xml(Worklist(fs, ReportPaths)[k].lines).exc # None}

\* C7: when a document collect_results reaches fails to parse, the call
\* returns no list, no report is printed, and the process ends with a
\* non-zero status on the first such document, whatever was parsed before.
C7_FailedParseFailsCollection ==
    FailingDocs # {} =>
        /\ returned = None
        /\ report = None
        /\ pc # "report"
        /\ pc = "exited" =>
              /\ exitcode = Some(1)
              /\ error # None
              /\ failedPath # None
              /\ \E k \in FailingDocs :
                    /\ \A j \in FailingDocs : k <= j
                    /\ failedPath[1] = Worklist(fs, ReportPaths)[k].path

\* C7 witness: the process has ended on a failing document after another
\* document had been parsed, and nothing was returned or reported.
C7_Witness ==
    /\ pc = "exited"
    /\ failedPath = Some("reports/old.xml/TEST-C.xml")
    /\ results # <<>>
    /\ returned = None
    /\ report = None
    /\ exitcode = Some(1)

\* sub occurs in s.
Contains(s, sub) == \E k \in 1..(Len(s) - Len(sub) + 1) : LitAt(s, k, sub)

\* C8: when collection fails on a document, the exception that ends the
\* process names the path of that document.
C8_ErrorNamesDocument ==
    (pc = "exited" /\ failedPath # None) =>
        /\ error # None
        /\ \E k \in 1..Len(error[1].args) :
              Contains(error[1].args[k], failedPath[1])

\* Every file below a node, depth first in listing order.
RECURSIVE FilesBelow(_)
FilesBelow(node) ==
    IF node.type = "file"
    THEN <<node>>
    ELSE LET below[k \in 0..Len(node.entries)] ==
                 IF k = 0 THEN <<>>
                 ELSE below[k - 1] \o FilesBelow(node.entries[k])
         IN  below[Len(node.entries)]

\* What one path is to contribute: the records of the file itself when it
\* is a document, those of every document below it when it is a directory.
Contribution(f, path) ==
    IF path \notin DOMAIN f \/ f[path] = None THEN <<>>
    ELSE IF f[path][1].type = "file"
    THEN RecordsOfFiles(<<[f[path][1] EXCEPT !.name = path]>>)
    ELSE RecordsOfFiles(FilesBelow(f[path][1]))

\* The number of records the first k paths are to contribute.
RECURSIVE Offset(_, _, _)
Offset(f, paths, k) ==
    IF k = 0 THEN 0
    ELSE Offset(f, paths, k - 1) + Len(Contribution(f, paths[k]))

DictGet(d, key, default) ==
    IF \E k \in 1..Len(d) : d[k].key = key
    THEN d[CHOOSE k \in 1..Len(d) : d[k].key = key].value
    ELSE default

\* d[key] = value: in place for a key the dict holds, else a new last item.
DictSet(d, key, value) ==
    IF \E k \in 1..Len(d) : d[k].key = key
    THEN [d EXCEPT ![CHOOSE k \in 1..Len(d) : d[k].key = key].value = value]
    ELSE Append(d, [key |-> key, value |-> value])

\* sorted(items, key=lambda x: x[1], reverse=True): stable, so items of
\* equal value keep their order.
RECURSIVE SortedByValueDescending(_)
SortedByValueDescending(items) ==
    IF items = <<>>
    THEN <<>>
    ELSE LET front == SortedByValueDescending(SubSeq(items, 1, Len(items) - 1))
             e == items[Len(items)]
             n == Cardinality({k \in 1..Len(front) : front[k].value >= e.value})
         IN  SubSeq(front, 1, n) \o <<e>> \o SubSeq(front, n + 1, Len(front))

\* if print_count > 7: break
PrintCutoff == 7

\* The durations float() gives for the time texts -1, 0, 1.5 and 3.
DurationPool == {float(t)[1] : t \in {"-1", "0", "1.5", "3"}}

NamePool == {"C.a()", "C.b()"}

TimedResults == {Result(n, "PASS", d) : n \in NamePool, d \in DurationPool}

\* The name of the k-th of many tests.
NumberedName(k) ==
    "C.t" \o DigitChar(k \div 10) \o DigitChar(k % 10) \o "()"

\* Result lists of up to MaxNames tests, one result each, that took a second
\* and a half or (by their time attribute) minus a second.
ManyNames ==
    UNION {{[k \in 1..n |-> Result(NumberedName(k), "PASS", d[k])] :
               d \in [1..n -> {float("-1")[1], float("1.5")[1]}]} :
           n \in (MaxResults + 1)..MaxNames}

InitSlow ==
    /\ ParserIdle
    /\ MainIdle
    /\ given \in UNION {[1..n -> TimedResults] : n \in 0..MaxResults}
                 \cup ManyNames
    /\ ridx = 1
    /\ durations = <<>>
    /\ rows = <<>>
    /\ counts = <<>>
    /\ flakyRows = <<>>
    /\ rpc = "loop"

\* Lines 149-153: one result is folded into durations.
SlowStep ==
    /\ rpc = "loop"
    /\ ridx <= Len(given)
    /\ LET result == given[ridx]
           duration == DictGet(durations, result.name, 0)
       IN  durations' =
               DictSet(durations, result.name,
                       IF result.duration > duration
                       THEN result.duration
                       ELSE duration)
    /\ ridx' = ridx + 1
    /\ UNCHANGED <<pvars, mvars, given, rows, counts, flakyRows, rpc>>

\* Lines 155-169: the table of the slowest tests.
SlowPrint ==
    /\ rpc = "loop"
    /\ ridx > Len(given)
    /\ LET sorted == SortedByValueDescending(durations)
           n == IF Len(sorted) > PrintCutoff + 1
                THEN PrintCutoff + 1
                ELSE Len(sorted)
       IN  rows' = [k \in 1..n |->
                      [duration |-> sorted[k].value, name |-> sorted[k].key]]
    /\ rpc' = "printed"
    /\ UNCHANGED <<pvars, mvars, given, ridx, durations, counts, flakyRows>>

NextSlow == SlowStep \/ SlowPrint

SpecSlow == InitSlow /\ [][NextSlow]_vars

\* ------------------------------------- claims on the report generator

\* The largest duration among the results called name.
MaxDuration(list, name) ==
    CHOOSE d \in {list[k].duration : k \in {j \in 1..Len(list) : list[j].name = name}} :
        \A k \in 1..Len(list) : list[k].name = name => list[k].duration <= d

\* C10: for every result list and every name in it, the duration the
\* slow-tests aggregation holds for the name is the largest duration of the
\* results of that name, whatever their order.
C10_MaxDurationPerName ==
    rpc = "printed" =>
        \A k \in 1..Len(given) :
            /\ \E j \in 1..Len(durations) : durations[j].key = given[k].name
            /\ DictGet(durations, given[k].name, 0)
                   = MaxDuration(given, given[k].name)

\* The names that occur in a result list.
NamesOf(list) == {list[k].name : k \in 1..Len(list)}

\* C11: the slow-tests table has min(8, number of distinct names) rows, in
\* non-increasing order of the maximum duration of their names, no name
\* twice, and no name left out has a maximum duration greater than that of
\* a name in the table.
C11_TopEightByMaxDuration ==
    rpc = "printed" =>
        /\ Len(rows) = IF Cardinality(NamesOf(given)) > PrintCutoff + 1
                       THEN PrintCutoff + 1
                       ELSE Cardinality(NamesOf(given))
        /\ \A k \in 1..Len(rows) : rows[k].name \in NamesOf(given)
        /\ \A k, j \in 1..Len(rows) : k # j => rows[k].name # rows[j].name
        /\ \A k \in 1..(Len(rows) - 1) :
              MaxDuration(given, rows[k].name)
                  >= MaxDuration(given, rows[k + 1].name)
        /\ \A n \in NamesOf(given) \ {rows[k].name : k \in 1..Len(rows)} :
              \A k \in 1..Len(rows) :
                  MaxDuration(given, n) <= MaxDuration(given, rows[k].name)

\* ------------------------------------------ print_flaky_tests_report

\* Characters in the order of their code points, which is the order in
\* which Python compares them.
CodePoints ==
    "().0123456789ABCDEFGHIJKLMNOPQRSTUVWXYZabcdefghijklmnopqrstuvwxyz"

ord(c) == CHOOSE k \in 1..Len(CodePoints) : SubSeq(CodePoints, k, k) = c

\* a < b on str: at the first position where they differ, or where a ends.
StrLess(a, b) ==
    \E k \in 1..(Len(b)) :
        /\ k <= Len(a) + 1
        /\ SubSeq(a, 1, k - 1) = SubSeq(b, 1, k - 1)
        /\ \/ k = Len(a) + 1
           \/ /\ k <= Len(a)
              /\ ord(SubSeq(a, k, k)) < ord(SubSeq(b, k, k))

\* The keys of a dict, in insertion order.
Keys(d) == [k \in 1..Len(d) |-> d[k].key]

\* The keys as they were inserted.
Unsorted(names) == names

\* sorted(counts.keys())
RECURSIVE sorted(_)
sorted(names) ==
    IF names = <<>>
    THEN <<>>
    ELSE LET front == sorted(SubSeq(names, 1, Len(names) - 1))
             e == names[Len(names)]
             n == Cardinality({k \in 1..Len(front) : ~StrLess(e, front[k])})
         IN  SubSeq(front, 1, n) \o <<e>> \o SubSeq(front, n + 1, Len(front))

\* A histogram that notes a kind without counting it.
CountKindOnce(stats, kind) == DictSet(stats, kind, 1)

\* Lines 176-177: one more result of the kind in the histogram of a name.
CountKind(stats, kind) == DictSet(stats, kind, DictGet(stats, kind, 0) + 1)

Kinds == {"PASS", "FAIL", "ERROR"}

FlakyNamePool == {"C.a()", "C.B()", "C.ab()"}

KindResults == {Result(n, kind, 0) : n \in FlakyNamePool, kind \in Kinds}

InitFlaky ==
    /\ ParserIdle
    /\ MainIdle
    /\ given \in UNION {[1..n -> KindResults] : n \in 0..MaxFlaky}
    /\ ridx = 1
    /\ durations = <<>>
    /\ rows = <<>>
    /\ counts = <<>>
    /\ flakyRows = <<>>
    /\ rpc = "count"

\* Lines 174-178: one result is counted.
FlakyStep ==
    /\ rpc = "count"
    /\ ridx <= Len(given)
    /\ LET result == given[ridx]
           counts_for_result == DictGet(counts, result.name, <<>>)
       IN  counts' = DictSet(counts, result.name,
                             CountKind(counts_for_result, result.kind))
    /\ ridx' = ridx + 1
    /\ UNCHANGED <<pvars, mvars, given, durations, rows, flakyRows, rpc>>

\* Lines 185-195 for the names in order: the rows of the names whose
\* histogram has more than one kind.
RECURSIVE FlakyTable(_)
FlakyTable(names) ==
    IF names = <<>>
    THEN <<>>
    ELSE LET name == Head(names)
             stats == DictGet(counts, name, <<>>)
         IN  IF Len(stats) = 1
             THEN FlakyTable(Tail(names))
             ELSE <<[pazz |-> DictGet(stats, "PASS", 0),
                     fail |-> DictGet(stats, "FAIL", 0),
                     error |-> DictGet(stats, "ERROR", 0),
                     name |-> name]>> \o FlakyTable(Tail(names))

\* Lines 180-195: the table of the flaky tests.
FlakyPrint ==
    /\ rpc = "count"
    /\ ridx > Len(given)
    /\ flakyRows' = FlakyTable(sorted(Keys(counts)))
    /\ rpc' = "flaky"
    /\ UNCHANGED <<pvars, mvars, given, ridx, durations, rows, counts>>

NextFlaky == FlakyStep \/ FlakyPrint

SpecFlaky == InitFlaky /\ [][NextFlaky]_vars

\* The kinds of the results called name.
KindsOf(list, name) ==
    {list[k].kind : k \in {j \in 1..Len(list) : list[j].name = name}}

\* The number of results called name and of the kind.
Tally(list, name, kind) ==
    Cardinality({k \in 1..Len(list) :
                    list[k].name = name /\ list[k].kind = kind})

\* C12: the flaky-tests table has a row for a name if and only if the
\* results of that name show more than one kind; a name of one kind has no
\* row; the rows are in ascending lexical order of name, one per name.
C12_RowsAreTheFlakyNames ==
    rpc = "flaky" =>
        /\ \A n \in NamesOf(given) :
              (\E k \in 1..Len(flakyRows) : flakyRows[k].name = n)
                  <=> Cardinality(KindsOf(given, n)) > 1
        /\ \A k \in 1..Len(flakyRows) : flakyRows[k].name \in NamesOf(given)
        /\ \A k \in 1..(Len(flakyRows) - 1) :
              StrLess(flakyRows[k].name, flakyRows[k + 1].name)

\* Two flaky names first seen in descending order; the rows are in
\* ascending order.
C12_Witness ==
    /\ rpc = "flaky"
    /\ Len(given) = 4
    /\ given[1].name = "C.ab()"
    /\ given[2].name = "C.B()"
    /\ Len(flakyRows) = 2
    /\ flakyRows[1].name = "C.B()"
    /\ flakyRows[2].name = "C.ab()"

\* C13: the histogram of a name maps every kind to the number of results
\* of that name and kind, a kind without results counting as 0 in the row,
\* so pass + fail + error of a row is the number of results of its name.
C13_HistogramCountsEveryResult ==
    rpc = "flaky" =>
        /\ \A n \in NamesOf(given) : \A kind \in Kinds :
              DictGet(DictGet(counts, n, <<>>), kind, 0)
                  = Tally(given, n, kind)
        /\ \A k \in 1..Len(flakyRows) :
              LET row == flakyRows[k]
              IN  /\ row.pazz = Tally(given, row.name, "PASS")
                  /\ row.fail = Tally(given, row.name, "FAIL")
                  /\ row.error = Tally(given, row.name, "ERROR")
                  /\ row.pazz + row.fail + row.error
                         = Cardinality({j \in 1..Len(given) :
                                           given[j].name = row.name})

\* A row of two passes and an error, its name never having failed.
C13_Witness ==
    /\ rpc = "flaky"
    /\ \E k \in 1..Len(flakyRows) :
          /\ flakyRows[k].pazz = 2
          /\ flakyRows[k].fail = 0
          /\ flakyRows[k].error = 1

\* ------------------------------------- further claims on the parser

\* A testcase-start line of the legacy variant: a test identifier and a
\* class identifier, the element ending without a time attribute.
LegacyStart(line) ==
    LET lit1 == "  <testcase name=\""
        lit2 == "\" classname=\""
        p1 == Len(lit1) + 1
        e1 == SpanNonQuote(line, p1)
        p2 == e1 + Len(lit2)
        e2 == SpanNonQuote(line, p2)
    IN  /\ LitAt(line, 1, lit1)
        /\ e1 > p1
        /\ LitAt(line, e1, lit2)
        /\ e2 > p2
        /\ LitAt(line, e2, "\"")
        /\ ~LitAt(line, e2, "\" time=\"")

\* The start lines of either variant.
AnyStartIdx(lines) ==
    {k \in 1..Len(lines) : TESTCASE(lines[k]) # None \/ LegacyStart(lines[k])}

\* C14: a start line of the legacy variant opens a test entry as the
\* common variant does: when parse_xml returns there is one record per
\* start line of either variant, and a marker that follows a legacy start
\* line is not attributed to the entry before it.
C14_LegacyLineOpensEntry ==
    ppc = "returned" =>
        /\ Len(parsed[1]) = Cardinality(AnyStartIdx(doc))
        /\ \A n \in 1..Len(parsed[1]) :
              n <= Cardinality(StartIdx(doc)) =>
                  LET k == NthStart(doc, n)
                      own == {j \in Segment(doc, k) :
                                 \A q \in AnyStartIdx(doc) : q > k => j < q}
                  IN  parsed[1][n].kind # "PASS" =>
                          \E j \in own : IsMarker(doc[j])

\* C19: an error or failure marker read while no test entry is open does
\* not abort the parse: the parse goes on past it unless a later line
\* stops it.
C19_MarkerBeforeFirstEntryIgnored ==
    \A j \in 1..Len(doc) :
        (IsMarker(doc[j]) /\ OpenAt(doc, j) = 0 /\ lineNo = j + 1) =>
            /\ ppc # "raised"
            /\ parser.exc = None
            /\ parser.results = <<>>

\* ------------------------------- further claims on the orchestrator

\* The last run of "mvn test" was made by this invocation and left no
\* target/surefire-reports.
LastRunLeftNothing ==
    /\ count # None
    /\ mvnCalls > firstRun
    /\ outputs[mvnCalls].dir = None

\* C15: when target/surefire-reports does not exist after "mvn test" has
\* returned, the iteration fails fatally: the step that finds it missing
\* ends the process with a non-zero status and changes nothing in the file
\* system, so nothing is archived for the run and the earlier archive
\* entries stay; the process that ended so has not run the command again
\* and has printed no report.
C15_MissingOutputIsFatal ==
    /\ [][(pc = "archive" /\ ~isdir(fs, RawDir)) =>
             /\ pc' = "exited"
             /\ exitcode' # None
             /\ exitcode' # Some(0)
             /\ fs' = fs
             /\ archivedRuns' = archivedRuns
             /\ mvnCalls' = mvnCalls
             /\ report' = None]_vars
    /\ [](LastRunLeftNothing =>
             /\ pc \in {"archive", "exited"}
             /\ mvnCalls \notin archivedRuns
             /\ report = None
             /\ pc = "exited" => exitcode \notin {None, Some(0)})

\* C15 witness: the second run of an invocation left no raw output after
\* the first was archived, and the process has ended on the assertion.
C15_Witness ==
    /\ pc = "exited"
    /\ LastRunLeftNothing
    /\ mvnCalls = firstRun + 2
    /\ (mvnCalls - 1) \in archivedRuns
    /\ error = Some(AssertionError)
    /\ isdir(fs, ArchiveRoot)
    /\ Len(fs[ArchiveRoot][1].entries) > 0

\* C16: when pom.xml is absent as an iteration begins, the tool ends with
\* a non-zero status and leaves everything as it was: "mvn test" is not
\* run and no directory, an existing target/surefire-reports included, is
\* removed, created or moved.
C16_MissingPomChangesNothing ==
    [][(pc = "iter" /\ i < count[1] /\ ~isfile(fs, PomPath)) =>
          /\ pc' = "exited"
          /\ exitcode' \notin {None, Some(0)}
          /\ mvnCalls' = mvnCalls
          /\ fs' = fs]_vars

\* The entries of the archive root of a tree (none without the root).
RunEntries(f) == IF isdir(f, ArchiveRoot) THEN f[ArchiveRoot][1].entries ELSE <<>>

\* C17: the archive root is append-only: no step removes, renames or
\* changes an entry it holds, and an iteration that archives its run adds
\* one new top-level entry.
C17_ArchiveAppendOnly ==
    [][/\ Len(RunEntries(fs')) >= Len(RunEntries(fs))
       /\ \A k \in 1..Len(RunEntries(fs)) :
             RunEntries(fs')[k] = RunEntries(fs)[k]
       /\ (pc = "archive" /\ pc' = "iter") =>
             Len(RunEntries(fs')) = Len(RunEntries(fs)) + 1]_vars

\* C18: target/surefire-reports does not exist when "mvn test" is run, and
\* every entry of the archive root holds the output of exactly one run:
\* its entries are those one archived run left, nothing of another run.
C18_OneRunPerArchiveEntry ==
    /\ pc = "mvn" => ~isdir(fs, RawDir)
    /\ \A k \in 1..Len(RunEntries(fs)) :
          \E r \in archivedRuns :
              /\ outputs[r].dir # None
              /\ RunEntries(fs)[k].entries = outputs[r].dir[1]

\* The first argument is neither a positive count nor the word report.
InvalidMode ==
    /\ Len(args) >= 1
    /\ args[1] # "report"
    /\ int(args[1]) = None \/ int(args[1])[1] <= 0

\* C20: with an invalid mode argument (count 0, a negative count, another
\* word) the tool ends with an error and does nothing else: it runs no
\* "mvn test", collects nothing and prints no report.
C20_InvalidModeIsFatal ==
    InvalidMode =>
        /\ pc \in {"main", "exited"}
        /\ mvnCalls = firstRun
        /\ returned = None
        /\ report = None
        /\ pc = "exited" => exitcode \notin {None, Some(0)}

====
